---- MODULE Spec2Model ----
(***************************************************************************)
(* The three batch workflows of the Plex housekeeping scripts:             *)
(*   Mover          LibroFMToPlexAudiobookMover.py   move_audiobooks       *)
(*   Organizer      MoveFromOpenAudibleToPlex.py     organize_audiobooks   *)
(*   Cover Resolver CoverArtRetriever.py             process_folders       *)
(* The state is the file system the scripts read and write (the audio      *)
(* source directory, the album-art directory, the destination library),    *)
(* the position of the running workflow in its loop, its counters, and the *)
(* sequence of observable effects of the run (log lines, provider queries, *)
(* downloads, sleeps).  One action is one call of the function up to its   *)
(* loop, one whole loop iteration, or the code after the loop.             *)
(*                                                                         *)
(* Errors of the operating system and of the network are inputs: every     *)
(* item step draws a fault (which file operation raises, and what it left  *)
(* behind) and the providers' answers from small sets.                     *)
(***************************************************************************)
EXTENDS Integers, Sequences, FiniteSets, TLC

\* ------------------------------------------------------------------ bounds
\* Largest file content; contents 1..MaxContent, Size groups them in pairs.
MaxContent == 3
\* Number of consecutive invocations of the workflow in one behaviour.
MaxRuns == 2

\* ------------------------------------------------------------- file system
\* Book base names (file stems / folder names), in sorted() order.
BookNames == <<"a", "b">>

Names == {BookNames[i] : i \in 1..Len(BookNames)}

\* A file slot holds no file (<<>>) or one file with a content (<<c>>).
NoFile == <<>>

\* What an interrupted copy leaves behind: a truncated file.
Truncated == <<0>>

Contents == 1..MaxContent

\* st_size of a file: contents 1 and 2 have the same size, 3 a larger one,
\* a truncated file is shorter than every complete file.
Size(f) == (f[1] + 1) \div 2

\* The extensions find_matching_album_art tries, in order.
extensions == <<".jpg", ".jpeg", ".png", ".JPG", ".JPEG", ".PNG">>

\* The file names has_cover_art looks for.
common_cover_names ==
  <<"cover.jpg", "cover.jpeg", "cover.png",
    "folder.jpg", "folder.jpeg", "folder.png",
    "poster.jpg", "poster.jpeg", "poster.png">>

\* COVER_FILENAME, and the name organize_audiobooks copies album art to.
COVER_FILENAME == "cover.jpg"

\* A destination entry <destination>/<name>: absent, a regular file, or a
\* directory (a book folder) with an audio slot and a set of cover images.
AbsentEntry == [kind |-> "absent", audio |-> NoFile, covers |-> {}]

FileEntry == [kind |-> "file", audio |-> NoFile, covers |-> {}]

DirEntry(audio, covers) == [kind |-> "dir", audio |-> audio, covers |-> covers]

CoverFile(name, data) == [name |-> name, data |-> data]

\* Cover sets a library folder starts with: none, the fixed cover name, or
\* another recognised name.
InitCovers ==
  { {}, {CoverFile("cover.jpg", <<"old">>)}, {CoverFile("folder.png", <<"old">>)} }

\* Album-art files per book the art directory starts with.
InitArt == { {}, {".png", ".JPG"} }

VARIABLES
  workflow,    \* which script the behaviour runs: "mover", "organizer", "cover"
  srcExists,   \* the audio source directory exists
  artExists,   \* the album-art directory exists
  destExists,  \* the destination (library) directory exists
  src,         \* src[n]: the slot of <source>/<n>.m4b
  art,         \* art[n]: the extensions e for which <art>/<n><e> exists
  dest,        \* dest[n]: the entry <destination>/<n>
  otherAudio,  \* otherAudio[n]: <destination>/<n> holds an audio file whose
               \* name is not <n>.m4b (no script reads or writes such a file)
  pc,          \* "idle" (between invocations) or "loop" (inside the for loop)
  dry_run,     \* DRY_RUN of main(), the dry_run argument of every invocation
  todo,        \* the items the loop has still to visit
  items,       \* the items the loop was started with
  stats,       \* the counters of the current invocation
  trace,       \* the observable effects of the current invocation, in order
  result,      \* how the last invocation returned
  runs,        \* invocations started so far
  start,       \* the file system when the current invocation started
  prev         \* result, success and failures of the invocation before

vars ==
  <<workflow, srcExists, artExists, destExists, src, art, dest, otherAudio,
    pc, dry_run, todo, items, stats, trace, result, runs, start, prev>>

fsvars == <<srcExists, artExists, destExists, src, art, dest>>

\* The file system as one value.
FS ==
  [srcExists |-> srcExists, artExists |-> artExists, destExists |-> destExists,
   src |-> src, art |-> art, dest |-> dest]

Ev(e, n, arg) == [ev |-> e, item |-> n, arg |-> arg]

NoStats ==
  [success |-> 0, skipped |-> 0, failures |-> 0,
   total_folders |-> 0, already_has_cover |-> 0, downloaded_itunes |-> 0,
   downloaded_openlibrary |-> 0, failed |-> 0]

\* Events of item n in a trace.
EventsOf(t, n) == SelectSeq(t, LAMBDA e : e.item = n)

Count(t, e, n) == Len(SelectSeq(t, LAMBDA x : x.ev = e /\ x.item = n))

Has(t, e, n) == Count(t, e, n) > 0

\* ------------------------------------------------------------ initial state
MoverEntries ==
  {AbsentEntry, FileEntry} \cup
  {DirEntry(a, {}) : a \in {NoFile} \cup {<<c>> : c \in Contents}}

OrganizerEntries ==
  {AbsentEntry, FileEntry} \cup
  {DirEntry(a, c) : a \in {NoFile} \cup {<<c>> : c \in Contents},
                    c \in InitCovers}

CoverEntries ==
  {AbsentEntry, FileEntry} \cup
  {DirEntry(a, c) : a \in {NoFile, <<1>>}, c \in InitCovers}

\* A source audio file has content 1; the destination may hold the same
\* content, another content of the same size, or one of another size.
SrcSlots == {NoFile, <<1>>}

Init ==
  /\ workflow \in {"mover", "organizer", "cover"}
  /\ srcExists \in BOOLEAN
  /\ artExists \in BOOLEAN
  /\ destExists \in BOOLEAN
  /\ workflow = "mover" => artExists
  /\ workflow = "cover" => artExists /\ srcExists
  /\ src \in [Names -> SrcSlots]
  /\ workflow = "cover" \/ ~srcExists => src = [n \in Names |-> NoFile]
  /\ art \in [Names -> InitArt]
  /\ workflow # "organizer" \/ ~artExists => art = [n \in Names |-> {}]
  /\ dest \in [Names -> CASE workflow = "mover" -> MoverEntries
                          [] workflow = "organizer" -> OrganizerEntries
                          [] OTHER -> CoverEntries]
  /\ ~destExists => dest = [n \in Names |-> AbsentEntry]
  /\ otherAudio = [n \in Names |-> FALSE]
  /\ pc = "idle"
  /\ dry_run \in BOOLEAN
  /\ todo = {}
  /\ items = {}
  /\ stats = NoStats
  /\ trace = <<>>
  /\ result = "none"
  /\ runs = 0
  /\ start = FS
  /\ prev = [result |-> "none", success |-> 0, failures |-> 0]

\* What every invocation does first: a fresh run over the current file system.
Begin ==
  /\ pc = "idle"
  /\ runs < MaxRuns
  /\ runs' = runs + 1
  /\ start' = FS
  /\ prev' = [result |-> result, success |-> stats.success,
               failures |-> stats.failures]
  /\ UNCHANGED <<workflow, otherAudio, dry_run>>

\* The function returns before its loop.
Return(r, t, s) ==
  /\ pc' = "idle"
  /\ result' = r
  /\ trace' = t
  /\ stats' = s
  /\ todo' = {}
  /\ items' = {}

\* The function enters its loop over the items found.
Enter(found, t, s) ==
  /\ pc' = "loop"
  /\ result' = "running"
  /\ trace' = t
  /\ stats' = s
  /\ todo' = found
  /\ items' = found

\* ------------------------------------------------------------------- Mover
\* source_path.glob("*.m4b")
M4bFiles == {n \in Names : src[n] # NoFile}

\* book_folder.mkdir(parents=True, exist_ok=True) raises when the path is a
\* regular file, or when the operating system refuses.
MkdirRaises(entry, fault) == entry.kind = "file" \/ fault = "mkdir"

\* The entry after a successful mkdir: an existing folder is kept.
Mkdir(entry) == IF entry.kind = "dir" THEN entry ELSE DirEntry(NoFile, {})

\* Variant of ShutilMove: the file is copied and the source is not removed.
ShutilMoveNoUnlink(s, entry) == [src |-> s, dest |-> [entry EXCEPT !.audio = s]]

\* shutil.move(src, dst) of a file onto a file path: the destination slot
\* takes the source's content and the source slot is emptied.
ShutilMove(s, entry) == [src |-> NoFile, dest |-> [entry EXCEPT !.audio = s]]

\* What a failed move or copy leaves in the destination slot.
AfterFault(entry, fault) ==
  IF fault \in {"move_partial", "copy_partial"}
  THEN [entry EXCEPT !.audio = Truncated]
  ELSE entry

MoverFaults == {"none", "mkdir", "move_nochange", "move_partial"}

\* Variant of MoverPathError: the destination check is missing.
MoverPathErrorSourceOnly(s, d) == IF ~s THEN "error_source" ELSE ""

\* "Validate paths": the error logged before returning, "" when both exist.
MoverPathError(s, d) ==
  IF ~s THEN "error_source"
  ELSE IF ~d THEN "error_destination"
  ELSE ""

move_audiobooks_start ==
  /\ workflow = "mover"
  /\ Begin
  /\ IF MoverPathError(srcExists, destExists) # ""
     THEN Return("fatal", <<Ev(MoverPathError(srcExists, destExists), "", <<>>)>>,
                 NoStats)
     ELSE IF M4bFiles = {}
     THEN Return("noitems", <<Ev("noitems", "", <<>>)>>, NoStats)
     ELSE Enter(M4bFiles, <<Ev("found", "", <<>>)>>, NoStats)
  /\ UNCHANGED fsvars

\* One iteration of the for loop over m4b_files (glob order is arbitrary).
move_audiobooks_item(n, fault) ==
  /\ workflow = "mover"
  /\ pc = "loop"
  /\ n \in todo
  /\ todo' = todo \ {n}
  /\ LET head == trace \o <<Ev("item", n, <<>>)>> IN
     IF dry_run
     THEN /\ trace' = head \o <<Ev("dryrun", n, <<>>)>>
          /\ UNCHANGED fsvars
     ELSE IF MkdirRaises(dest[n], fault)
     THEN /\ trace' = head \o <<Ev("error", n, <<>>)>>
          /\ UNCHANGED fsvars
     ELSE IF fault \in {"move_nochange", "move_partial"}
     THEN /\ trace' = head \o <<Ev("error", n, <<>>)>>
          /\ dest' = [dest EXCEPT ![n] = AfterFault(Mkdir(dest[n]), fault)]
          /\ destExists' = TRUE
          /\ UNCHANGED <<srcExists, artExists, src, art>>
     ELSE LET m == ShutilMove(src[n], Mkdir(dest[n])) IN
          /\ trace' = head \o <<Ev("moved", n, <<>>)>>
          /\ dest' = [dest EXCEPT ![n] = m.dest]
          /\ src' = [src EXCEPT ![n] = m.src]
          /\ destExists' = TRUE
          /\ UNCHANGED <<srcExists, artExists, art>>
  /\ UNCHANGED <<workflow, otherAudio, pc, dry_run, items, stats, result, runs, start, prev>>

\* After the loop: the dry-run notice, then the function returns.
move_audiobooks_end ==
  /\ workflow = "mover"
  /\ pc = "loop"
  /\ todo = {}
  /\ pc' = "idle"
  /\ result' = "completed"
  /\ trace' = IF dry_run THEN trace \o <<Ev("dryrun_notice", "", <<>>)>> ELSE trace
  /\ UNCHANGED <<workflow, otherAudio, dry_run, todo, items, stats, runs, start, prev>>
  /\ UNCHANGED fsvars

\* --------------------------------------------------------------- Organizer
\* find_matching_album_art: the first extension, in list order, whose file
\* exists in the art directory; "" stands for None.
find_matching_album_art(n) ==
  LET hits == {i \in 1..Len(extensions) : extensions[i] \in art[n]} IN
  IF hits = {} THEN ""
  ELSE extensions[CHOOSE i \in hits : \A j \in hits : i <= j]

\* Variant of CreatesDestination: the dry_run guard is missing.
CreatesDestinationAlways(exists, d) == ~exists

\* `not dest_path.exists() and not dry_run`: the destination is created.
CreatesDestination(exists, d) == ~exists /\ ~d

\* m4b_destination.exists()
DestinationExists(entry) == entry.kind = "dir" /\ entry.audio # NoFile

\* Variant of SizesMatch: the sizes never compare equal.
SizesMatchNever(s, a) == FALSE

\* source_size == dest_size
SizesMatch(s, a) == Size(s) = Size(a)

\* Variant of Copy2: an existing destination file is not overwritten.
Copy2KeepExisting(s, entry) ==
  IF entry.audio = NoFile THEN [entry EXCEPT !.audio = s] ELSE entry

\* shutil.copy2(m4b_file, m4b_destination): the slot takes the source's content.
Copy2(s, entry) == [entry EXCEPT !.audio = s]

\* Writing the file <folder>/<name>: it replaces a file of that name.
WriteCover(entry, name, data) ==
  [entry EXCEPT !.covers = {c \in @ : c.name # name} \cup {CoverFile(name, data)}]

\* What a failed write of the cover file leaves in the folder.
AfterCoverFault(entry, fault) ==
  IF fault \in {"art_partial", "download_partial"}
  THEN WriteCover(entry, COVER_FILENAME, <<"partial">>)
  ELSE entry

\* Variant of Counted: a failure is also counted as a success.
CountedTwice(s, outcome) ==
  IF outcome = "failures"
  THEN [s EXCEPT !.failures = @ + 1, !.success = @ + 1]
  ELSE [s EXCEPT ![outcome] = @ + 1]

\* stats[outcome] += 1
Counted(s, outcome) == [s EXCEPT ![outcome] = @ + 1]

OrganizerFaults ==
  {"none", "stat", "mkdir", "copy_nochange", "copy_partial",
   "art_nochange", "art_partial"}

\* The body of the for loop for item n: the folder entry it leaves, the
\* effects it adds, and the counter it increments.
OrganizeOne(n, d, fault) ==
  LET e0 == dest[n]
      exists == DestinationExists(e0)
      proc == <<Ev("item", n, <<>>),
                Ev("process", n, <<IF exists THEN "mismatch" ELSE "new">>)>>
      err == <<Ev("error", n, <<>>)>>
      artfile == find_matching_album_art(n)
      e1 == Mkdir(e0)
      e2 == Copy2(src[n], e1)
  IN
  IF exists /\ fault = "stat"
  THEN [entry |-> e0, events |-> <<Ev("item", n, <<>>)>> \o err,
        outcome |-> "failures"]
  ELSE IF exists /\ SizesMatch(src[n], e0.audio)
  THEN [entry |-> e0, events |-> <<Ev("item", n, <<>>), Ev("skip", n, <<>>)>>,
        outcome |-> "skipped"]
  ELSE IF d
  THEN [entry |-> e0,
        events |-> proc \o <<Ev("would_mkdir", n, <<>>), Ev("would_copy", n, <<>>),
                             IF artfile = "" THEN Ev("noart", n, <<>>)
                             ELSE Ev("would_art", n, <<artfile>>)>>,
        outcome |-> "success"]
  ELSE IF MkdirRaises(e0, fault)
  THEN [entry |-> e0, events |-> proc \o err, outcome |-> "failures"]
  ELSE IF fault \in {"copy_nochange", "copy_partial"}
  THEN [entry |-> AfterFault(e1, fault),
        events |-> proc \o <<Ev("mkdir", n, <<>>)>> \o err,
        outcome |-> "failures"]
  ELSE IF artfile = ""
  THEN [entry |-> e2,
        events |-> proc \o <<Ev("mkdir", n, <<>>), Ev("copy", n, <<>>),
                             Ev("noart", n, <<>>)>>,
        outcome |-> "success"]
  ELSE IF fault \in {"art_nochange", "art_partial"}
  THEN [entry |-> AfterCoverFault(e2, fault),
        events |-> proc \o <<Ev("mkdir", n, <<>>), Ev("copy", n, <<>>)>> \o err,
        outcome |-> "failures"]
  ELSE [entry |-> WriteCover(e2, COVER_FILENAME, <<"art", artfile>>),
        events |-> proc \o <<Ev("mkdir", n, <<>>), Ev("copy", n, <<>>),
                             Ev("art", n, <<artfile>>)>>,
        outcome |-> "success"]

\* sorted(...): the first remaining item in sorted order.
SortedFirst(S) ==
  BookNames[CHOOSE i \in 1..Len(BookNames) :
              /\ BookNames[i] \in S
              /\ \A j \in 1..Len(BookNames) : BookNames[j] \in S => i <= j]

\* "Validate source folders": the error logged before returning, or "".
OrganizerPathError(s, a) ==
  IF ~s THEN "error_m4b"
  ELSE IF ~a THEN "error_art"
  ELSE ""

organize_audiobooks_start ==
  /\ workflow = "organizer"
  /\ Begin
  /\ IF OrganizerPathError(srcExists, artExists) # ""
     THEN /\ Return("fatal",
                    <<Ev(OrganizerPathError(srcExists, artExists), "", <<>>)>>,
                    NoStats)
          /\ UNCHANGED destExists
     ELSE LET made == CreatesDestination(destExists, dry_run)
              t == IF made THEN <<Ev("created_destination", "", <<>>)>> ELSE <<>>
          IN
          /\ destExists' = (destExists \/ made)
          /\ IF M4bFiles = {}
             THEN Return("noitems", t \o <<Ev("noitems", "", <<>>)>>, NoStats)
             ELSE Enter(M4bFiles, t \o <<Ev("found", "", <<>>)>>, NoStats)
  /\ UNCHANGED <<srcExists, artExists, src, art, dest>>

\* One iteration of `for m4b_file in sorted(m4b_files)`, try/except included.
organize_audiobooks_item(fault) ==
  /\ workflow = "organizer"
  /\ pc = "loop"
  /\ todo # {}
  /\ LET n == SortedFirst(todo)
         r == OrganizeOne(n, dry_run, fault)
     IN
     /\ todo' = todo \ {n}
     /\ dest' = [dest EXCEPT ![n] = r.entry]
     /\ destExists' = (destExists \/ r.entry.kind = "dir")
     /\ trace' = trace \o r.events
     /\ stats' = Counted(stats, r.outcome)
  /\ UNCHANGED <<workflow, otherAudio, pc, dry_run, items, result, runs, start, prev>>
  /\ UNCHANGED <<srcExists, artExists, src, art>>

\* The summary after the loop.
organize_audiobooks_end ==
  /\ workflow = "organizer"
  /\ pc = "loop"
  /\ todo = {}
  /\ pc' = "idle"
  /\ result' = "completed"
  /\ trace' = trace \o <<Ev("summary", "", <<>>)>>
  /\ UNCHANGED <<workflow, otherAudio, dry_run, todo, items, stats, runs, start, prev>>
  /\ UNCHANGED fsvars

\* ---------------------------------------------------------- Cover Resolver
\* str.replace(old, new) on a string held as a sequence of tokens.
Replace(u, old, new) == [i \in 1..Len(u) |-> IF u[i] = old THEN new ELSE u[i]]

\* What the iTunes search can answer: a transport error or bad status
\* (ok = FALSE), or a JSON body with resultCount and the first result's
\* artworkUrl100 (<<>> when the field is missing or empty).
ItunesResponses ==
  { [ok |-> FALSE, resultCount |-> 0, artworkUrl100 |-> <<>>],
    [ok |-> TRUE, resultCount |-> 0, artworkUrl100 |-> <<>>],
    [ok |-> TRUE, resultCount |-> 1, artworkUrl100 |-> <<>>],
    [ok |-> TRUE, resultCount |-> 1,
     artworkUrl100 |-> <<"https://is1.mzstatic.com/image/", "100x100", "bb.jpg">>],
    [ok |-> TRUE, resultCount |-> 1,
     artworkUrl100 |-> <<"https://is1.mzstatic.com/image/", "source.jpg">>] }

\* What the Open Library search can answer; cover_i "" stands for None.
OpenLibraryResponses ==
  { [ok |-> FALSE, numFound |-> 0, cover_i |-> ""],
    [ok |-> TRUE, numFound |-> 0, cover_i |-> ""],
    [ok |-> TRUE, numFound |-> 1, cover_i |-> ""],
    [ok |-> TRUE, numFound |-> 1, cover_i |-> "8231856"] }

DownloadResults == {"ok", "download_nochange", "download_partial"}

\* search_itunes: the artwork URL, or <<>> for None.
search_itunes(r) ==
  IF ~r.ok THEN <<>>
  ELSE IF r.resultCount > 0
  THEN Replace(r.artworkUrl100, "100x100", "600x600")
  ELSE <<>>

\* search_openlibrary: the cover URL, or <<>> for None.
search_openlibrary(r) ==
  IF ~r.ok THEN <<>>
  ELSE IF r.numFound > 0 /\ r.cover_i # ""
  THEN <<"https://covers.openlibrary.org/b/id/", r.cover_i, "-L.jpg">>
  ELSE <<>>

\* Variant of has_cover_art: only COVER_FILENAME is looked for.
has_cover_art_fixed_name(entry) ==
  \E c \in entry.covers : c.name = COVER_FILENAME

\* has_cover_art: some recognised cover file name exists in the folder.
has_cover_art(entry) ==
  \E i \in 1..Len(common_cover_names) :
    \E c \in entry.covers : c.name = common_cover_names[i]

\* The log line a search writes about its answer.
SearchLog(e, n, ok, url) ==
  IF url # <<>> THEN Ev(e \o "_found", n, url)
  ELSE IF ok THEN Ev(e \o "_notfound", n, <<>>)
  ELSE Ev(e \o "_error", n, <<>>)

\* Variant of ResolveArtwork: Open Library is queried although iTunes found.
ResolveArtworkBoth(n, ra, rb) ==
  LET ua == search_itunes(ra)
      ub == search_openlibrary(rb)
      qa == <<Ev("itunes", n, <<>>), SearchLog("itunes", n, ra.ok, ua)>>
      qb == <<Ev("openlibrary", n, <<>>), SearchLog("openlibrary", n, rb.ok, ub)>>
  IN IF ua # <<>>
     THEN [url |-> ua, source |-> "iTunes", events |-> qa \o qb]
     ELSE [url |-> ub, source |-> IF ub # <<>> THEN "Open Library" ELSE "",
           events |-> qa \o qb]

\* "Try iTunes first ... Fallback to Open Library": the URL, its source and
\* the requests made.
ResolveArtwork(n, ra, rb) ==
  LET ua == search_itunes(ra)
      ub == search_openlibrary(rb)
      qa == <<Ev("itunes", n, <<>>), SearchLog("itunes", n, ra.ok, ua)>>
      qb == <<Ev("openlibrary", n, <<>>), SearchLog("openlibrary", n, rb.ok, ub)>>
  IN IF ua # <<>>
     THEN [url |-> ua, source |-> "iTunes", events |-> qa]
     ELSE [url |-> ub, source |-> IF ub # <<>> THEN "Open Library" ELSE "",
           events |-> qa \o qb]

\* Variant of DownloadCounter: a failed download is counted nowhere.
DownloadCounterLost(ok, source) ==
  IF ~ok THEN "none"
  ELSE IF source = "iTunes" THEN "downloaded_itunes"
  ELSE "downloaded_openlibrary"

\* The counter a finished download increments.
DownloadCounter(ok, source) ==
  IF ~ok THEN "failed"
  ELSE IF source = "iTunes" THEN "downloaded_itunes"
  ELSE "downloaded_openlibrary"

\* The body of the for loop for folder n: the folder entry it leaves, the
\* effects it adds, and the outcome counter it increments ("none": no counter).
CoverOne(n, d, ra, rb, dl) ==
  LET e0 == dest[n]
      visit == <<Ev("item", n, <<>>)>>
      found == ResolveArtwork(n, ra, rb)
      sleep == <<Ev("sleep", n, <<>>)>>
  IN
  IF has_cover_art(e0)
  THEN [entry |-> e0, events |-> visit \o <<Ev("hascover", n, <<>>)>>,
        counter |-> "already_has_cover"]
  ELSE IF found.url = <<>>
  THEN [entry |-> e0,
        events |-> visit \o found.events \o <<Ev("notfound", n, <<>>)>>,
        counter |-> "failed"]
  ELSE IF d
  THEN [entry |-> e0,
        events |-> visit \o found.events
                   \o <<Ev("would_download", n, found.url)>> \o sleep,
        counter |-> "none"]
  ELSE IF dl = "ok"
  THEN [entry |-> WriteCover(e0, COVER_FILENAME, found.url),
        events |-> visit \o found.events
                   \o <<Ev("download", n, found.url), Ev("saved", n, <<>>)>>
                   \o sleep,
        counter |-> DownloadCounter(TRUE, found.source)]
  ELSE [entry |-> AfterCoverFault(e0, dl),
        events |-> visit \o found.events
                   \o <<Ev("download", n, found.url), Ev("download_error", n, <<>>)>>
                   \o sleep,
        counter |-> DownloadCounter(FALSE, found.source)]

\* [f for f in self.audiobooks_path.iterdir() if f.is_dir()]
BookFolders == {n \in Names : dest[n].kind = "dir"}

process_folders_start ==
  /\ workflow = "cover"
  /\ Begin
  /\ IF ~destExists
     THEN Return("fatal", <<Ev("error_library", "", <<>>)>>, NoStats)
     ELSE IF BookFolders = {}
     THEN Return("noitems", <<Ev("noitems", "", <<>>)>>, NoStats)
     ELSE Enter(BookFolders, <<Ev("found", "", <<>>)>>, NoStats)
  /\ UNCHANGED fsvars

\* One iteration of `for folder in sorted(book_folders)`.
process_folders_item(ra, rb, dl) ==
  /\ workflow = "cover"
  /\ pc = "loop"
  /\ todo # {}
  /\ LET n == SortedFirst(todo)
         r == CoverOne(n, dry_run, ra, rb, dl)
         s1 == Counted(stats, "total_folders")
     IN
     /\ todo' = todo \ {n}
     /\ dest' = [dest EXCEPT ![n] = r.entry]
     /\ trace' = trace \o r.events
     /\ stats' = IF r.counter = "none" THEN s1 ELSE Counted(s1, r.counter)
  /\ UNCHANGED <<workflow, otherAudio, pc, dry_run, items, result, runs, start, prev>>
  /\ UNCHANGED <<srcExists, artExists, destExists, src, art>>

\* The summary after the loop.
process_folders_end ==
  /\ workflow = "cover"
  /\ pc = "loop"
  /\ todo = {}
  /\ pc' = "idle"
  /\ result' = "completed"
  /\ trace' = trace \o <<Ev("summary", "", <<>>)>>
  /\ UNCHANGED <<workflow, otherAudio, dry_run, todo, items, stats, runs, start, prev>>
  /\ UNCHANGED fsvars

Next ==
  \/ move_audiobooks_start
  \/ \E n \in Names, f \in MoverFaults : move_audiobooks_item(n, f)
  \/ move_audiobooks_end
  \/ organize_audiobooks_start
  \/ \E f \in OrganizerFaults : organize_audiobooks_item(f)
  \/ organize_audiobooks_end
  \/ process_folders_start
  \/ \E ra \in ItunesResponses, rb \in OpenLibraryResponses, dl \in DownloadResults :
        process_folders_item(ra, rb, dl)
  \/ process_folders_end

Spec == Init /\ [][Next]_vars

\* ------------------------------------------------ one library, three scripts
\* Book folders a library starts with: at most one audio file (<n>.m4b or a
\* file of another name) and at most one cover image.
LibraryEntries ==
  { AbsentEntry,
    DirEntry(NoFile, {}),
    DirEntry(<<2>>, {CoverFile("cover.jpg", <<"old">>)}),
    DirEntry(NoFile, {CoverFile("folder.png", <<"old">>)}) }

\* The scripts configured for live runs (DRY_RUN = False) on existing
\* source, art and destination directories; which script runs first is
\* chosen by run_other_script.
InitLibrary ==
  /\ workflow = "mover"
  /\ srcExists = TRUE
  /\ artExists = TRUE
  /\ destExists = TRUE
  /\ src = [n \in Names |-> <<1>>]
  /\ art \in [Names -> InitArt]
  /\ dest \in [Names -> LibraryEntries]
  /\ otherAudio \in [Names -> BOOLEAN]
  /\ \A n \in Names :
       otherAudio[n] => dest[n].kind = "dir" /\ dest[n].audio = NoFile
  /\ pc = "idle"
  /\ dry_run = FALSE
  /\ todo = {}
  /\ items = {}
  /\ stats = NoStats
  /\ trace = <<>>
  /\ result = "none"
  /\ runs = 0
  /\ start = FS
  /\ prev = [result |-> "none", success |-> 0, failures |-> 0]

\* Between two invocations the user runs another of the three scripts.
run_other_script(w) ==
  /\ pc = "idle"
  /\ runs < MaxRuns
  /\ w # workflow
  /\ workflow' = w
  /\ UNCHANGED <<otherAudio, pc, dry_run, todo, items, stats, trace, result,
                 runs, start, prev>>
  /\ UNCHANGED fsvars

\* The faults and provider answers drawn in runs against the library: one
\* of each kind of outcome.
LibraryMoverFaults == {"none", "mkdir", "move_partial"}

LibraryOrganizerFaults == {"none", "mkdir", "copy_partial", "art_partial"}

LibraryItunesResponses ==
  {r \in ItunesResponses : ~r.ok \/ Len(r.artworkUrl100) = 3}

LibraryOpenLibraryResponses ==
  {r \in OpenLibraryResponses : r.ok /\ r.numFound > 0}

LibraryDownloadResults == {"ok", "download_partial"}

NextLibrary ==
  \/ move_audiobooks_start
  \/ \E n \in Names, f \in LibraryMoverFaults : move_audiobooks_item(n, f)
  \/ move_audiobooks_end
  \/ organize_audiobooks_start
  \/ \E f \in LibraryOrganizerFaults : organize_audiobooks_item(f)
  \/ organize_audiobooks_end
  \/ process_folders_start
  \/ \E ra \in LibraryItunesResponses, rb \in LibraryOpenLibraryResponses,
        dl \in LibraryDownloadResults :
        process_folders_item(ra, rb, dl)
  \/ process_folders_end
  \/ \E w \in {"mover", "organizer", "cover"} : run_other_script(w)

SpecLibrary == InitLibrary /\ [][NextLibrary]_vars
\* ------------------------------------------------------------------ claims
\* An invocation of the workflow w has returned.
Returned(w) == workflow = w /\ pc = "idle" /\ runs > 0

\* Items of the current invocation the loop has finished with.
Visited == items \ todo

\* Items of the current invocation with an event e in the trace.
ItemsWith(e) == {n \in Names : Has(trace, e, n)}

\* The events of item n, as the sequence of their kinds.
Kinds(n) == LET E == EventsOf(trace, n) IN [i \in 1..Len(E) |-> E[i].ev]

\* File n of the source directory at the start of the run is now the audio
\* file of the book folder <destination>/<n> and is gone from the source.
Relocated(n) ==
  /\ dest[n].kind = "dir"
  /\ dest[n].audio = start.src[n]
  /\ src[n] = NoFile

\* C1 (as claimed): after a live Mover run over existing source and
\* destination directories, every .m4b file that was in the source directory
\* is at <destination>/<stem>/<name> and no longer at its source path,
\* whatever the destination held and also when the move of an item failed.
C1_EveryFileRelocated ==
  Returned("mover") /\ ~dry_run /\ start.srcExists /\ start.destExists
    => \A n \in Names : start.src[n] # NoFile => Relocated(n)

\* C1 (amended): after a live Mover run over existing directories, every
\* .m4b file of the source directory was visited once and ended either moved
\* (it is at <destination>/<stem>/<name>, replacing any file that was there,
\* and gone from the source) or in a logged error (it is still at its source
\* path with its content).
C1_MovedOrLeftInPlace ==
  Returned("mover") /\ ~dry_run /\ start.srcExists /\ start.destExists
    => \A n \in Names : start.src[n] # NoFile =>
         /\ Count(trace, "item", n) = 1
         /\ Has(trace, "moved", n) # Has(trace, "error", n)
         /\ Has(trace, "moved", n) => Relocated(n)
         /\ Has(trace, "error", n) => src[n] = start.src[n]

\* C1 witness: a live run has returned in which one file replaced a different
\* file already at its destination path and the move of another file failed.
C1_Witness ==
  /\ Returned("mover") /\ ~dry_run /\ result = "completed"
  /\ \E n, m \in Names :
       /\ Has(trace, "moved", n)
       /\ start.dest[n].audio \notin {NoFile, start.src[n]}
       /\ Relocated(n)
       /\ Has(trace, "error", m)
       /\ src[m] # NoFile

RecognisedCoverNames ==
  {b \o e : b \in {"cover", "folder", "poster"}, e \in {".jpg", ".jpeg", ".png"}}

\* The folder entry holds a file with a recognised cover name.
HoldsCover(entry) == \E c \in entry.covers : c.name \in RecognisedCoverNames

\* C3: a book folder that holds a recognised cover file when process_folders
\* visits it gets no provider query and no download, keeps its contents, and
\* is counted in already_has_cover and in no other outcome counter.
C3_CoveredFolderUntouched ==
  workflow = "cover" /\ runs > 0
    => /\ \A n \in Visited :
            HoldsCover(start.dest[n]) =>
              /\ Kinds(n) = <<"item", "hascover">>
              /\ dest[n] = start.dest[n]
       /\ stats.already_has_cover =
            Cardinality({n \in Visited : HoldsCover(start.dest[n])})

\* C3 witness: a live run has visited a folder whose only cover is
\* folder.png and has downloaded a cover into another folder.
C3_Witness ==
  /\ Returned("cover") /\ ~dry_run /\ result = "completed"
  /\ \E n, m \in Visited :
       /\ start.dest[n].covers = {CoverFile("folder.png", <<"old">>)}
       /\ Has(trace, "hascover", n)
       /\ Has(trace, "saved", m)
\* Position of the first event of kind e of item n in the trace (0: none).
IndexOf(e, n) ==
  LET I == {i \in 1..Len(trace) : trace[i].ev = e /\ trace[i].item = n} IN
  IF I = {} THEN 0 ELSE CHOOSE i \in I : \A j \in I : i <= j

\* Provider A answered the query for folder n with no usable result.
ProviderAYieldedNothing(n) ==
  Has(trace, "itunes_notfound", n) \/ Has(trace, "itunes_error", n)

\* Provider B answered the query for folder n with no usable result.
ProviderBYieldedNothing(n) ==
  Has(trace, "openlibrary_notfound", n) \/ Has(trace, "openlibrary_error", n)

\* C4: for every visited book folder without cover art, Provider A is
\* queried first and exactly once; Provider B is queried exactly once if and
\* only if A yielded no usable result, and after A; the folder is concluded
\* not-found, and counted failed, only after both providers were queried
\* once and both yielded nothing.
C4_ProviderOrder ==
  workflow = "cover" /\ runs > 0
    => /\ \A n \in Visited :
            ~HoldsCover(start.dest[n]) =>
              /\ Count(trace, "itunes", n) = 1
              /\ IndexOf("itunes", n) = IndexOf("item", n) + 1
              /\ Count(trace, "openlibrary", n) =
                   (IF ProviderAYieldedNothing(n) THEN 1 ELSE 0)
              /\ ProviderAYieldedNothing(n) # Has(trace, "itunes_found", n)
              /\ Has(trace, "openlibrary", n) =>
                   IndexOf("itunes", n) < IndexOf("openlibrary", n)
              /\ Has(trace, "notfound", n) <=>
                   ProviderAYieldedNothing(n) /\ ProviderBYieldedNothing(n)
              /\ Has(trace, "notfound", n) =>
                   /\ Count(trace, "notfound", n) = 1
                   /\ IndexOf("openlibrary", n) < IndexOf("notfound", n)
       /\ stats.failed =
            Cardinality(ItemsWith("notfound")) + Cardinality(ItemsWith("download_error"))

\* C4 witness: a run has visited a folder for which Provider A reported an
\* error and Provider B supplied the URL, and a folder that neither provider
\* found.
C4_Witness ==
  /\ Returned("cover") /\ result = "completed"
  /\ \E n, m \in Visited :
       /\ Has(trace, "itunes_error", n)
       /\ Has(trace, "openlibrary_found", n)
       /\ Has(trace, "notfound", m)
       /\ stats.failed = 1

\* C5: in a dry run of any of the three workflows the source, art and
\* destination trees stay, at every step, what they were when the run
\* started, also when the Organizer's destination directory is missing.
C5_DryRunChangesNothing ==
  dry_run => FS = start

\* C5 witness: a dry run of the Organizer has processed items although the
\* destination directory does not exist.
C5_Witness ==
  /\ Returned("organizer") /\ dry_run /\ result = "completed"
  /\ ~destExists
  /\ stats.success = 2
\* The trace is one logged error and nothing else.
OnlyAnErrorLogged ==
  /\ Len(trace) = 1
  /\ trace[1].ev \in {"error_source", "error_destination", "error_m4b",
                      "error_art", "error_library"}

\* The run returned at its precondition check: nothing processed or changed.
AbortedCleanly ==
  /\ pc = "idle"
  /\ result = "fatal"
  /\ FS = start
  /\ OnlyAnErrorLogged
  /\ stats = NoStats

\* C6 (as claimed): a run that starts with a required directory missing
\* (Mover: source or destination; Organizer: audio source, art source or
\* destination; Cover Resolver: library) logs an error and returns without
\* processing, creating, copying, moving or downloading anything.
C6_MissingDirectoryIsFatal ==
  runs > 0 /\
  (\/ workflow = "mover" /\ (~start.srcExists \/ ~start.destExists)
   \/ workflow = "organizer" /\
        (~start.srcExists \/ ~start.artExists \/ ~start.destExists)
   \/ workflow = "cover" /\ ~start.destExists)
    => AbortedCleanly

\* C6 (amended): a run that starts with a required directory missing (Mover:
\* source or destination; Organizer: audio source or art source; Cover
\* Resolver: library) logs an error and returns without processing or
\* changing anything.  A missing destination is not fatal to the Organizer:
\* when both sources exist the run goes on, a live run creating the
\* destination directory and a dry run leaving it missing.
C6_MissingRequiredDirectoryIsFatal ==
  runs > 0 =>
    /\ (\/ workflow = "mover" /\ (~start.srcExists \/ ~start.destExists)
        \/ workflow = "organizer" /\ (~start.srcExists \/ ~start.artExists)
        \/ workflow = "cover" /\ ~start.destExists)
         => AbortedCleanly
    /\ workflow = "organizer" /\ start.srcExists /\ start.artExists
         /\ ~start.destExists
         => /\ result # "fatal"
            /\ destExists = ~dry_run

\* C6 witness: a live Mover run has returned at the missing destination
\* directory although the source directory held files.
C6_Witness ==
  /\ Returned("mover") /\ ~dry_run
  /\ ~start.destExists
  /\ \E n \in Names : src[n] # NoFile
  /\ AbortedCleanly

\* An item failed: an error was caught and logged while it was handled.
Failed(n) ==
  \/ Has(trace, "error", n)
  \/ Has(trace, "itunes_error", n)
  \/ Has(trace, "openlibrary_error", n)
  \/ Has(trace, "download_error", n)

\* C7: a failure while handling one item never aborts the run: a run that
\* entered its loop visits every item once, in every workflow, and ends
\* normally; in the Organizer each visited item is counted in exactly one of
\* success, skipped and failures, a failed item in failures only.
C7_FailureIsolation ==
  /\ result \in {"none", "running", "fatal", "noitems", "completed"}
  /\ \A n \in Visited : Count(trace, "item", n) = 1
  /\ \A n \in todo : ~Has(trace, "item", n)
  /\ pc = "idle" /\ items # {} => result = "completed" /\ todo = {}
  /\ pc = "loop" => result = "running"
  /\ workflow = "organizer" /\ runs > 0 =>
       /\ stats.failures = Cardinality({n \in Visited : Failed(n)})
       /\ stats.skipped = Cardinality({n \in Visited : Has(trace, "skip", n)})
       /\ stats.success =
            Cardinality({n \in Visited : ~Failed(n) /\ ~Has(trace, "skip", n)})

\* C7 witness: a live Organizer run has completed in which the first item
\* failed and the item after it was copied.
C7_Witness ==
  /\ Returned("organizer") /\ ~dry_run /\ result = "completed"
  /\ Has(trace, "error", BookNames[1])
  /\ Has(trace, "copy", BookNames[2])
  /\ IndexOf("error", BookNames[1]) < IndexOf("item", BookNames[2])
  /\ stats.failures = 1 /\ stats.success = 1

\* C8: after every book folder process_folders visits, whatever its
\* outcome, the inter-item delay occurs before the next folder is visited.
C8_SleepAfterEveryFolder ==
  workflow = "cover" =>
    \A i \in 2..Len(trace) :
      trace[i].ev = "item" /\ (\E j \in 1..(i - 1) : trace[j].ev = "item")
        => trace[i - 1].ev = "sleep"
\* <destination>/<n>/<n>.m4b existed with the source's byte size when the
\* run started (an item's folder changes only in its own iteration).
WasDuplicate(n) ==
  /\ start.dest[n].kind = "dir"
  /\ start.dest[n].audio # NoFile
  /\ Size(start.dest[n].audio) = Size(src[n])

\* C9 (as claimed): a source file whose destination file exists with the
\* same size is skipped entirely (nothing created, copied or looked up,
\* skipped + 1); any other source file is processed and, in live mode, the
\* destination audio file afterwards has the source's content.
C9_DuplicateDetection ==
  workflow = "organizer" /\ runs > 0
    => /\ \A n \in Visited :
            IF WasDuplicate(n)
            THEN /\ Kinds(n) = <<"item", "skip">>
                 /\ dest[n] = start.dest[n]
            ELSE /\ Has(trace, "process", n)
                 /\ ~dry_run => dest[n].kind = "dir" /\ dest[n].audio = src[n]
       /\ stats.skipped = Cardinality({n \in Visited : WasDuplicate(n)})

\* C9 (amended): a source file whose destination file exists with the same
\* size is never processed: nothing is created, copied or looked up and the
\* folder is unchanged; it is counted skipped unless the size check raises
\* (then it is counted a failure).  Any other source file is processed and,
\* in live mode, unless the size check, creating the folder or copying the
\* audio file raises (counted a failure), the destination audio file
\* afterwards has the source's content, replacing any previous file.
C9_DuplicateDetectionUnlessRaised ==
  workflow = "organizer" /\ runs > 0
    => /\ \A n \in Visited :
            IF WasDuplicate(n)
            THEN /\ \/ Kinds(n) = <<"item", "skip">>
                    \/ Kinds(n) = <<"item", "error">>
                 /\ dest[n] = start.dest[n]
            ELSE /\ ~Has(trace, "skip", n)
                 /\ \/ Has(trace, "process", n)
                    \/ Kinds(n) = <<"item", "error">> /\ dest[n] = start.dest[n]
                 /\ ~dry_run =>
                      \/ dest[n].kind = "dir" /\ dest[n].audio = src[n]
                         /\ Has(trace, "copy", n)
                      \/ Has(trace, "error", n) /\ ~Has(trace, "copy", n)
                         /\ dest[n].audio \in {start.dest[n].audio, Truncated}
       /\ stats.skipped = Cardinality(ItemsWith("skip"))
       /\ \A n \in Visited : Has(trace, "error", n) => Failed(n) /\ stats.failures > 0

\* C9 witness: a live run has skipped an item whose destination file had the
\* source's size but another content, and has replaced a destination file of
\* another size by the source's content.
C9_Witness ==
  /\ Returned("organizer") /\ ~dry_run /\ result = "completed"
  /\ \E n, m \in Visited :
       /\ WasDuplicate(n) /\ start.dest[n].audio # src[n]
       /\ Has(trace, "skip", n) /\ dest[n] = start.dest[n]
       /\ start.dest[m].audio # NoFile /\ ~WasDuplicate(m)
       /\ Has(trace, "copy", m) /\ dest[m].audio = src[m]

\* The outcome counters of the Cover Resolver add up to total_folders.
CountersAddUp ==
  stats.total_folders =
    stats.already_has_cover + stats.downloaded_itunes
      + stats.downloaded_openlibrary + stats.failed

\* Folder n has exactly one of the terminal events.
OneTerminalOutcome(n) ==
  Cardinality({e \in {"hascover", "notfound", "saved", "download_error",
                      "would_download"} : Has(trace, e, n)}) = 1

\* C10 (as claimed): when a Cover Resolver run finishes, live or dry,
\* total_folders = already_has_cover + downloaded_itunes +
\* downloaded_openlibrary + failed.
C10_CountersAddUp ==
  Returned("cover") /\ result = "completed" => CountersAddUp

\* C10 (amended): every visited folder ends in exactly one terminal outcome;
\* in a live run it is counted in exactly one outcome counter, so the
\* counters add up to total_folders: a download failure increments failed, a
\* download success only the counter of the provider that supplied the URL.
\* In a dry run a folder whose cover was found is counted in no outcome
\* counter, so total_folders exceeds the sum by the number of such folders.
C10_LiveCountersAddUp ==
  workflow = "cover" /\ runs > 0
    => /\ stats.total_folders = Cardinality(Visited)
       /\ \A n \in Visited : OneTerminalOutcome(n)
       /\ stats.already_has_cover = Cardinality(ItemsWith("hascover"))
       /\ stats.failed =
            Cardinality(ItemsWith("notfound") \cup ItemsWith("download_error"))
       /\ stats.downloaded_itunes =
            Cardinality(ItemsWith("saved") \cap ItemsWith("itunes_found"))
       /\ stats.downloaded_openlibrary =
            Cardinality(ItemsWith("saved") \cap ItemsWith("openlibrary_found"))
       /\ ~dry_run => CountersAddUp
       /\ dry_run =>
            stats.total_folders =
              stats.already_has_cover + stats.failed
                + Cardinality(ItemsWith("would_download"))

\* C10 witness: a live run has finished with one failed download and one
\* cover downloaded from Open Library.
C10_Witness ==
  /\ Returned("cover") /\ ~dry_run /\ result = "completed"
  /\ ItemsWith("download_error") # {}
  /\ ItemsWith("saved") \cap ItemsWith("openlibrary_found") # {}
  /\ stats.failed = 1 /\ stats.downloaded_openlibrary = 1
  /\ stats.total_folders = 2
\* Audio files in the book folder <destination>/<n>: the file <n>.m4b and the
\* audio file of another name, where present.
AudioFiles(n) ==
  (IF dest[n].audio # NoFile THEN 1 ELSE 0) + (IF otherAudio[n] THEN 1 ELSE 0)

\* Cover images in a folder entry, counting every recognised cover name.
CoverImagesIn(entry) ==
  Cardinality({c \in entry.covers : c.name \in RecognisedCoverNames})

\* C11 (as claimed): starting from a library whose book folders hold at most
\* one audio file and at most one cover image, after any sequence of live
\* runs of the three workflows every book folder still holds at most one
\* audio file and at most one cover image.
C11_AtMostOneAudioOneCover ==
  pc = "idle" =>
    \A n \in Names :
      dest[n].kind = "dir" => AudioFiles(n) <= 1 /\ CoverImagesIn(dest[n]) <= 1

\* C11 (amended): starting from such a library, through any sequence of live
\* runs, a book folder holds at most one file named cover.jpg and at most
\* one file <stem>.m4b.  The Cover Resolver never changes a folder's audio
\* and never adds a cover image to a folder that holds one; the Mover never
\* changes a folder's cover images.  A folder holds a second cover image
\* only when the Organizer copied album art to cover.jpg beside a cover of
\* another recognised name, and a second audio file only when <stem>.m4b was
\* put beside an audio file of another name; never more than two of either.
C11_AtMostOnePerWrittenName ==
  \A n \in Names :
    /\ dest[n].kind = "dir" =>
         /\ Cardinality({c \in dest[n].covers : c.name = "cover.jpg"}) <= 1
         /\ CoverImagesIn(dest[n]) <= 2
         /\ AudioFiles(n) <= 2
         /\ CoverImagesIn(dest[n]) = 2 =>
              \E c \in dest[n].covers :
                c.name = "cover.jpg" /\ c.data[1] \in {"art", "partial"}
         /\ AudioFiles(n) = 2 => otherAudio[n] /\ dest[n].audio # NoFile
    /\ pc = "loop" /\ workflow = "cover" =>
         /\ dest[n].audio = start.dest[n].audio
         /\ CoverImagesIn(start.dest[n]) >= 1 => dest[n] = start.dest[n]
         /\ CoverImagesIn(start.dest[n]) = 0 => CoverImagesIn(dest[n]) <= 1
    /\ pc = "loop" /\ workflow = "mover" =>
         dest[n].covers = start.dest[n].covers

\* C11 witness: after an Organizer run, a Cover Resolver run has visited and
\* skipped a folder that holds two cover images and two audio files.
C11_Witness ==
  /\ Returned("cover") /\ runs = 2 /\ result = "completed"
  /\ \E n \in Names :
       /\ CoverImagesIn(dest[n]) = 2
       /\ AudioFiles(n) = 2
       /\ Has(trace, "hascover", n)
====
